---- MODULE Spec2Model ----
(***************************************************************************)
(* A model of get_user_headers.py: the header cache kept in SQLite, the    *)
(* normalisation and filtering of header names, and the get_all/get_safe   *)
(* entry points of UserHeaderGetter, the probe server of _get_uncached and  *)
(* two processes sharing one cache file.                                   *)
(*                                                                         *)
(* A header name is a sequence of one-character strings.  A Python dict is *)
(* a sequence of <<key, value>> pairs with pairwise different keys, in     *)
(* iteration order; two dicts are equal when they hold the same pairs.     *)
(* None and the empty dict are both the empty sequence: the code only      *)
(* tests them for truth.  Time is counted in half weeks (84 hours), so     *)
(* that the clock passes an entry's expiry within a few ticks.             *)
(***************************************************************************)
EXTENDS Integers, Sequences, FiniteSets, TLC

VARIABLES
    cache,       \* the rows of table user_headers in cache.sqlite3
    now,         \* _timestamp(datetime.datetime.now()), in half weeks
    py_version,  \* sys.version_info.major of the running process
    last,        \* what the last call on the getter was given, did and returned
    passed,      \* the mapping the caller passed to the last call, as the
                 \* call left it (<<>> when the call took none)
    host,        \* the machine: its platform and the ports other programs hold
    probe,       \* the call of _get_uncached in progress
    procs,       \* two processes in get_all on one cache file
    disk         \* the cache directory and cache.sqlite3 as the file system
                 \* holds them, the getter built on them and the error the
                 \* last call on them raised

vars == <<cache, now, py_version, last, passed, host, probe, procs, disk>>

\* What the methods of one getter called one after the other leave alone
others == <<host, probe, procs, disk>>

(***************************************************************************)
(* Bounds of the model.                                                    *)
(***************************************************************************)
\* The clock stops here; it has to pass cache_timeout for entries to expire.
MaxNow == 3

\* The most items a header set given to normalize_header_names has.
MaxItems == 2

(***************************************************************************)
(* Strings.                                                                *)
(***************************************************************************)
Str(s) == [i \in 1..Len(s) |-> SubSeq(s, i, i)]

UpperChars == Str("ABCDEFGHIJKLMNOPQRSTUVWXYZ")
LowerChars == Str("abcdefghijklmnopqrstuvwxyz")

\* The upper-case letters' lower-case forms, and the reverse.
LowerOf ==
    [c \in {UpperChars[i] : i \in DOMAIN UpperChars} |->
        LowerChars[CHOOSE i \in DOMAIN UpperChars : UpperChars[i] = c]]
UpperOf ==
    [c \in {LowerChars[i] : i \in DOMAIN LowerChars} |->
        UpperChars[CHOOSE i \in DOMAIN LowerChars : LowerChars[i] = c]]

IsCased(c) == c \in DOMAIN LowerOf \/ c \in DOMAIN UpperOf

CharLower(c) == IF c \in DOMAIN LowerOf THEN LowerOf[c] ELSE c

CharUpper(c) == IF c \in DOMAIN UpperOf THEN UpperOf[c] ELSE c

\* str.lower()
lower(x) == [i \in DOMAIN x |-> CharLower(x[i])]

\* str.upper()
upper(x) == [i \in DOMAIN x |-> CharUpper(x[i])]

\* str.title(): a cased character is upper-cased when the character before
\* it is not cased (or there is none), and lower-cased otherwise.
title(x) ==
    [i \in DOMAIN x |->
        IF i > 1 /\ IsCased(x[i - 1]) THEN CharLower(x[i]) ELSE CharUpper(x[i])]

(***************************************************************************)
(* The reference tables of UserHeaderGetter.                               *)
(***************************************************************************)
safe_headers ==
    { Str("Accept"), Str("Accept-Charset"), Str("Accept-Language"),
      Str("DNT"), Str("From"), Str("User-Agent"), Str("X-ATT-Deviceid"),
      Str("X-Wap-Profile") }

unsafe_headers ==
    { Str("Authorization"), Str("Cookie"), Str("Cookie2"),
      Str("X-Csrf-Token"), Str("X-CSRFToken"), Str("X-UIDH"),
      Str("X-XSRF-TOKEN"), Str("Proxy-Authorization"),
      Str("Content-Encoding"), Str("Content-Language"),
      Str("Content-Length"), Str("Content-Location"), Str("Content-MD5"),
      Str("Content-Range"), Str("Content-Type"), Str("Date"), Str("Expect"),
      Str("Expires"), Str("Front-End-Https"), Str("Host"), Str("If-Match"),
      Str("If-Modified-Since"), Str("If-None-Match"), Str("If-Range"),
      Str("If-Unmodified-Since"), Str("Last-Modified"), Str("Origin"),
      Str("Range"), Str("Referer"), Str("TE"), Str("Transfer-Encoding"),
      Str("Upgrade"), Str("X-Forwarded-Host"), Str("X-Forwarded-Proto"),
      Str("X-Http-Method-Override"), Str("X-ProxyUser-Ip"),
      Str("X-Requested-With") }

known_headers ==
    safe_headers \cup unsafe_headers \cup
    { Str("Accept-Encoding"), Str("Accept-Datetime"), Str("Cache-Control"),
      Str("Connection"), Str("Pragma"), Str("Proxy-Connection"), Str("DPR"),
      Str("Width"), Str("Viewport-Width"), Str("Downling"),
      Str("Save-Data"), Str("Forwarded"), Str("Max-Forwards"),
      Str("Trailer"), Str("Via"), Str("Warning"), Str("X-Forwarded-For") }

\* cache_timeout = datetime.timedelta(days=7): two half weeks
cache_timeout == 2

\* sys.version_info.major of the interpreters that share one store
PyVersions == {2, 3}

\* The version _get_cache falls back to.
FallbackVersion == 3

(***************************************************************************)
(* Dicts.                                                                  *)
(***************************************************************************)
Keys(d) == {d[i][1] : i \in DOMAIN d}
Items(d) == {d[i] : i \in DOMAIN d}

\* DictSet that leaves the value of a key already there alone
DictSet_KeepFirst(d, k, v) ==
    IF k \in Keys(d) THEN d ELSE Append(d, <<k, v>>)

\* d[k] = v: a key already there keeps its place
DictSet(d, k, v) ==
    IF k \in Keys(d)
    THEN [i \in DOMAIN d |-> IF d[i][1] = k THEN <<k, v>> ELSE d[i]]
    ELSE Append(d, <<k, v>>)

\* FilterIn without its `if`
FilterIn_All(d, allowed) == d

\* FilterIn with the test of get_all: `key not in`
FilterIn_Negated(d, allowed) ==
    SelectSeq(d, LAMBDA p : p[1] \notin allowed)

\* {key: value for key, value in d.items() if key in allowed}
FilterIn(d, allowed) ==
    SelectSeq(d, LAMBDA p : p[1] \in allowed)

\* {key: value for key, value in d.items() if key not in banned}
FilterNotIn(d, banned) ==
    SelectSeq(d, LAMBDA p : p[1] \notin banned)

(***************************************************************************)
(* normalize_header_names                                                  *)
(***************************************************************************)
\* known = {x.lower(): x for x in self.known_headers}
known ==
    [l \in {lower(x) : x \in known_headers} |->
        CHOOSE x \in known_headers : lower(x) = l]

\* known.get(l, default)
KnownGet(l, default) == IF l \in DOMAIN known THEN known[l] ELSE default

\* NormalizeKey without the table of canonical forms: x.title()
NormalizeKey_TitleOnly(x) == title(x)

\* NormalizeKey looking the key up as it is spelt: known.get(x, x.title())
NormalizeKey_NoLower(x) == KnownGet(x, title(x))

\* known.get(x.lower(), x.title())
NormalizeKey(x) == KnownGet(lower(x), title(x))

\* The dict comprehension over the first n items of headers: a later item
\* whose key normalises to one already present overwrites its value.
RECURSIVE NormalizeItems(_, _)
NormalizeItems(headers, n) ==
    IF n = 0
    THEN <<>>
    ELSE DictSet(NormalizeItems(headers, n - 1),
                 NormalizeKey(headers[n][1]), headers[n][2])

normalize_header_names(headers) == NormalizeItems(headers, Len(headers))

(***************************************************************************)
(* The cache: table user_headers, with its unique index on                 *)
(* (py_version, key COLLATE NOCASE).                                       *)
(***************************************************************************)
Row(version, key, value, expires) ==
    [py_version |-> version, key |-> key, value |-> value, expires |-> expires]

\* The key column without COLLATE NOCASE
NoCaseEq_Exact(a, b) == a = b

\* COLLATE NOCASE
NoCaseEq(a, b) == lower(a) = lower(b)

\* INSERT OR REPLACE: the rows that conflict on the unique index go first.
InsertOrReplace(c, row) ==
    {r \in c : ~(r.py_version = row.py_version /\ NoCaseEq(r.key, row.key))}
        \cup {row}

\* executemany over the first n items of headers, in order
RECURSIVE ExecuteMany(_, _, _, _, _)
ExecuteMany(c, version, headers, ts_expires, n) ==
    IF n = 0
    THEN c
    ELSE InsertOrReplace(
             ExecuteMany(c, version, headers, ts_expires, n - 1),
             Row(version, headers[n][1], headers[n][2], ts_expires))

\* _save_cache replacing the version's header set instead of merging into it
_save_cache_Replace(c, version, headers, t) ==
    ExecuteMany({r \in c : r.py_version # version}, version, headers,
                t + cache_timeout, Len(headers))

_save_cache(c, version, headers, t) ==
    ExecuteMany(c, version, headers, t + cache_timeout, Len(headers))

\* clear_expired with `expires <= ?`
clear_expired_Inclusive(c, t) == {r \in c : ~(r.expires <= t)}

\* DELETE FROM user_headers WHERE expires < ?
clear_expired(c, t) == {r \in c : ~(r.expires < t)}

\* SELECT key, value FROM user_headers WHERE py_version = ?
SelectVersion(c, version) == {r \in c : r.py_version = version}

\* dict(rows): the rows of one version never collide on a key, so the order
\* the rows come in does not show in the dict's items.
RECURSIVE DictOfRows(_)
DictOfRows(rows) ==
    IF rows = {}
    THEN <<>>
    ELSE LET r == CHOOSE r \in rows : TRUE
         IN  DictSet(DictOfRows(rows \ {r}), r.key, r.value)

\* CacheRows trying the versions in the order (3, sys.version_info.major)
CacheRows_FallbackFirst(c, version) ==
    IF SelectVersion(c, FallbackVersion) # {}
    THEN SelectVersion(c, FallbackVersion)
    ELSE SelectVersion(c, version)

\* CacheRows returning the rows of both versions together
CacheRows_Mixed(c, version) ==
    SelectVersion(c, version) \cup SelectVersion(c, FallbackVersion)

\* The rows _get_cache returns: those of the first version of
\* (sys.version_info.major, 3) that has any.
CacheRows(c, version) ==
    IF SelectVersion(c, version) # {}
    THEN SelectVersion(c, version)
    ELSE SelectVersion(c, FallbackVersion)

_get_cache(c, version) == DictOfRows(CacheRows(c, version))

(***************************************************************************)
(* get_all and get_safe                                                    *)
(***************************************************************************)
\* normalize_header_names rewriting the keys in the caller's dict
ArgAfterNormalize_InPlace(headers) == normalize_header_names(headers)

\* The caller's dict after normalize_header_names(headers): the comprehension
\* reads headers.items() and builds a new dict.
ArgAfterNormalize(headers) == headers

\* The caller's dict after get_all(headers) or get_safe(headers) with a
\* non-empty headers: it is handed to normalize_header_names, and the filter
\* is a comprehension over the dict that call returned.
ArgAfterFilter(headers) == ArgAfterNormalize(headers)

\* The caller's dict after _save_cache(headers): list(headers.items()) is
\* read into the rows to insert.
ArgAfterSaveCache(headers) == headers

\* Header sets a caller passes as the headers argument.
Overrides ==
    { << <<Str("foo"), "Bar">>, <<Str("cookie"), "secret">> >>,
      << <<Str("dnt"), "1">>, <<Str("TE"), "trailers">>,
         <<Str("VIA"), "proxy">>, <<Str("Dnt"), "0">> >> }

\* Header sets a browser sends to the probe (harvested_headers.pop()).
ProbedSets ==
    { << <<Str("User-Agent"), "ua1">>, <<Str("Cookie"), "sid">> >>,
      << <<Str("user-agent"), "ua2">>, <<Str("x-testing-123"), "Mock Data">> >> }

\* get_all without its `if not headers` test
NoOverride_Always(headers) == TRUE

\* `if not headers`: the caller gave no header set, or an empty one
NoOverride(headers) == headers = <<>>

\* headers = self._get_cache() if not skip_cache else {}
CacheLookup(skip_cache, c, version) ==
    IF ~skip_cache THEN _get_cache(c, version) ELSE <<>>

\* get_all probing whatever the lookup gave
NeedsProbe_Always(cached) == TRUE

\* `headers or self._get_uncached()`: the probe runs when the lookup gave
\* nothing
NeedsProbe(cached) == cached = <<>>

\* get_all handing _save_cache the filtered mapping it is about to return
GetAllRun_SaveFiltered(headers, skip_cache, probed, c, version, t) ==
    IF NoOverride(headers)
    THEN LET cached   == CacheLookup(skip_cache, c, version)
             purged   == clear_expired(c, t)
             live     == NeedsProbe(cached)
             obtained == IF live THEN probed ELSE cached
             filtered == FilterNotIn(normalize_header_names(obtained),
                                     unsafe_headers)
         IN  [ cache  |-> _save_cache(purged, version, filtered, t),
               source |-> obtained,
               read   |-> IF skip_cache THEN {} ELSE CacheRows(c, version),
               put    |-> filtered,
               reads  |-> IF skip_cache THEN 0 ELSE 1,
               purges |-> 1,
               probes |-> IF live THEN 1 ELSE 0,
               writes |-> 1,
               result |-> filtered ]
    ELSE [ cache  |-> c,
           source |-> headers,
           read   |-> {},
           put    |-> <<>>,
           reads  |-> 0,
           purges |-> 0,
           probes |-> 0,
           writes |-> 0,
           result |-> FilterNotIn(normalize_header_names(headers),
                                  unsafe_headers) ]

\* get_all purging only on its way to a live probe
GetAllRun_PurgeOnMiss(headers, skip_cache, probed, c, version, t) ==
    IF NoOverride(headers)
    THEN LET cached   == CacheLookup(skip_cache, c, version)
             live     == NeedsProbe(cached)
             purged   == IF live THEN clear_expired(c, t) ELSE c
             obtained == IF live THEN probed ELSE cached
         IN  [ cache  |-> _save_cache(purged, version, obtained, t),
               source |-> obtained,
               read   |-> IF skip_cache THEN {} ELSE CacheRows(c, version),
               put    |-> obtained,
               reads  |-> IF skip_cache THEN 0 ELSE 1,
               purges |-> IF live THEN 1 ELSE 0,
               probes |-> IF live THEN 1 ELSE 0,
               writes |-> 1,
               result |-> FilterNotIn(normalize_header_names(obtained),
                                      unsafe_headers) ]
    ELSE [ cache  |-> c,
           source |-> headers,
           read   |-> {},
           put    |-> <<>>,
           reads  |-> 0,
           purges |-> 0,
           probes |-> 0,
           writes |-> 0,
           result |-> FilterNotIn(normalize_header_names(headers),
                                  unsafe_headers) ]

\* What one call of get_all does to the store c at time t and returns, when
\* a probe, if it runs, harvests `probed`.
\*   source  the header set the call obtained
\*   read    the rows the cache lookup returned
\*   put     the header set handed to _save_cache
\*   reads, purges, probes, writes
\*           the calls of _get_cache, clear_expired, _get_uncached and
\*           _save_cache
GetAllRun(headers, skip_cache, probed, c, version, t) ==
    IF NoOverride(headers)
    THEN LET cached   == CacheLookup(skip_cache, c, version)
             purged   == clear_expired(c, t)
             live     == NeedsProbe(cached)
             obtained == IF live THEN probed ELSE cached
         IN  [ cache  |-> _save_cache(purged, version, obtained, t),
               source |-> obtained,
               read   |-> IF skip_cache THEN {} ELSE CacheRows(c, version),
               put    |-> obtained,
               reads  |-> IF skip_cache THEN 0 ELSE 1,
               purges |-> 1,
               probes |-> IF live THEN 1 ELSE 0,
               writes |-> 1,
               result |-> FilterNotIn(normalize_header_names(obtained),
                                      unsafe_headers) ]
    ELSE [ cache  |-> c,
           source |-> headers,
           read   |-> {},
           put    |-> <<>>,
           reads  |-> 0,
           purges |-> 0,
           probes |-> 0,
           writes |-> 0,
           result |-> FilterNotIn(normalize_header_names(headers),
                                  unsafe_headers) ]

\* What one call of get_safe does and returns: `headers or self.get_all(...)`
GetSafeRun(headers, skip_cache, probed, c, version, t) ==
    LET inner == GetAllRun(<<>>, skip_cache, probed, c, version, t)
    IN  IF headers # <<>>
        THEN [ cache  |-> c,
               source |-> headers,
               read   |-> {},
               put    |-> <<>>,
               reads  |-> 0,
               purges |-> 0,
               probes |-> 0,
               writes |-> 0,
               result |-> FilterIn(normalize_header_names(headers),
                                   safe_headers) ]
        ELSE [ inner EXCEPT
               !.result = FilterIn(normalize_header_names(inner.result),
                                   safe_headers) ]

\* The record of a call: its name and arguments, what it did (run), and the
\* rows that were in the table before it and are not after it (deleted by
\* the purge or displaced by INSERT OR REPLACE).
Call(op, headers, skip_cache, run, removed) ==
    [ op |-> op, headers |-> headers, skip_cache |-> skip_cache,
      source |-> run.source, read |-> run.read, put |-> run.put,
      reads |-> run.reads, purges |-> run.purges, probes |-> run.probes,
      writes |-> run.writes, result |-> run.result, removed |-> removed ]

NoRun ==
    [ cache |-> {}, source |-> <<>>, read |-> {}, put |-> <<>>, reads |-> 0,
      purges |-> 0, probes |-> 0, writes |-> 0, result |-> <<>> ]

NoCall == Call("none", <<>>, FALSE, NoRun, {})

(***************************************************************************)
(* The machine, the probe and the processes before anything runs.          *)
(***************************************************************************)
\* A Linux machine on which no other program holds a port
QuietHost == [ platform |-> "linux", in_use |-> {}, denied |-> {} ]

\* No call of _get_uncached has begun.
IdleProbe ==
    [ pc |-> "idle", skip_cache |-> FALSE, server_address |-> 0,
      draws |-> 0, binds |-> 0, port_found |-> FALSE, listener |-> 0,
      sockets |-> {}, request_url |-> 0, opened |-> <<>>, backlog |-> <<>>,
      served |-> 0, answered |-> <<>>, harvested |-> <<>>, errno |-> 0,
      error |-> "none", visited |-> 0, saved |-> FALSE ]

\* Neither process has begun.
IdleProcs == <<>>

\* The cache directory exists, cache.sqlite3 holds the schema and a getter
\* was constructed on it.
ReadyDisk ==
    [ dir |-> "present", file |-> "present", getter |-> "ready",
      error |-> "none" ]

(***************************************************************************)
(* The state machine.                                                      *)
(***************************************************************************)
\* UserHeaderGetter(path) on a new cache directory
Init ==
    /\ cache = {}
    /\ now = 0
    /\ py_version \in PyVersions
    /\ last = NoCall
    /\ passed = <<>>
    /\ host = QuietHost
    /\ probe = IdleProbe
    /\ procs = IdleProcs
    /\ disk = ReadyDisk

\* UserHeaderGetter(path) in a process of interpreter `version`, on the
\* store as the processes before it left it (CREATE TABLE IF NOT EXISTS)
Construct(version) ==
    /\ py_version' = version
    /\ last' = NoCall
    /\ passed' = <<>>
    /\ UNCHANGED <<cache, now>>
    /\ UNCHANGED others

\* Half a week passes.
Tick ==
    /\ now < MaxNow
    /\ now' = now + 1
    /\ last' = NoCall
    /\ passed' = <<>>
    /\ UNCHANGED <<cache, py_version>>
    /\ UNCHANGED others

\* What a probe may harvest in a call: _get_uncached runs only when
\* GetAllRun needs it, and then a browser answers with one of ProbedSets.
Harvests(headers, skip_cache) ==
    IF /\ NoOverride(headers)
       /\ NeedsProbe(CacheLookup(skip_cache, cache, py_version))
    THEN ProbedSets
    ELSE {<<>>}

get_all(headers, skip_cache) ==
    \E probed \in Harvests(headers, skip_cache) :
        \E run \in {GetAllRun(headers, skip_cache, probed, cache, py_version, now)} :
            /\ cache' = run.cache
            /\ last' = Call("get_all", headers, skip_cache, run,
                                 cache \ run.cache)
            /\ passed' = IF NoOverride(headers)
                          THEN <<>> ELSE ArgAfterFilter(headers)
            /\ UNCHANGED <<now, py_version>>
            /\ UNCHANGED others

get_safe(headers, skip_cache) ==
    \E probed \in Harvests(headers, skip_cache) :
        \E run \in {GetSafeRun(headers, skip_cache, probed, cache, py_version, now)} :
            /\ cache' = run.cache
            /\ last' = Call("get_safe", headers, skip_cache, run,
                                 cache \ run.cache)
            /\ passed' = IF headers = <<>>
                          THEN <<>> ELSE ArgAfterFilter(headers)
            /\ UNCHANGED <<now, py_version>>
            /\ UNCHANGED others

Next ==
    \/ \E version \in PyVersions : Construct(version)
    \/ Tick
    \/ \E headers \in Overrides \cup {<<>>}, skip_cache \in BOOLEAN :
           get_all(headers, skip_cache)
    \/ \E headers \in Overrides \cup {<<>>}, skip_cache \in BOOLEAN :
           get_safe(headers, skip_cache)

Spec == Init /\ [][Next]_vars

(***************************************************************************)
(* The store's own methods, called directly as the tests do.               *)
(***************************************************************************)
\* Header sets handed to _save_cache.  The last one has two keys that differ
\* in case only.
StoredSets ==
    { << <<Str("A"), "1">> >>,
      << <<Str("B"), "2">> >>,
      << <<Str("a"), "3">> >>,
      << <<Str("B"), "2">>, <<Str("b"), "4">> >> }

\* self._save_cache(headers)
SaveCache(headers) ==
    \E after \in {_save_cache(cache, py_version, headers, now)} :
        /\ cache' = after
        /\ last' = Call("_save_cache", headers, FALSE,
                        [NoRun EXCEPT !.put = headers, !.writes = 1],
                        cache \ after)
        /\ passed' = ArgAfterSaveCache(headers)
        /\ UNCHANGED <<now, py_version>>
        /\ UNCHANGED others

\* self._get_cache().  The record keeps, as headers, the header set of the
\* _save_cache call that this read follows with nothing but reads between.
GetCache ==
    /\ last' = Call("_get_cache",
                    IF last.op \in {"_save_cache", "_get_cache"}
                    THEN last.headers ELSE <<>>,
                    FALSE,
                    [NoRun EXCEPT !.read = CacheRows(cache, py_version),
                                  !.reads = 1,
                                  !.result = _get_cache(cache, py_version)],
                    {})
    /\ passed' = <<>>
    /\ UNCHANGED <<cache, now, py_version>>
    /\ UNCHANGED others

\* self.clear_expired()
ClearExpired ==
    \E after \in {clear_expired(cache, now)} :
        /\ cache' = after
        /\ last' = Call("clear_expired", <<>>, FALSE,
                        [NoRun EXCEPT !.purges = 1], cache \ after)
        /\ passed' = <<>>
        /\ UNCHANGED <<now, py_version>>
        /\ UNCHANGED others

NextStore ==
    \/ \E version \in PyVersions : Construct(version)
    \/ Tick
    \/ \E headers \in StoredSets : SaveCache(headers)
    \/ GetCache
    \/ ClearExpired

SpecStore == Init /\ [][NextStore]_vars

(***************************************************************************)
(* normalize_header_names on its own: the argument is drawn when the       *)
(* behaviour starts and the call is the one step.                          *)
(***************************************************************************)
\* Names the argument's keys are spelt after: known ones whose canonical
\* form is not their title-cased form, one whose is, and unknown ones.
BaseNames ==
    { Str("DNT"), Str("TE"), Str("X-CSRFToken"), Str("Via"),
      Str("X-Testing-123"), Str("foo1bar") }

\* Each of them as it is, in lower case, in upper case and title-cased
PureKeys == UNION {{x, lower(x), upper(x), title(x)} : x \in BaseNames}

PureValues == {"v1", "v2"}

\* The dict with keys ks[1], ..., ks[n] and values vs[1], ..., vs[n]
DictOf(ks, vs) == [i \in DOMAIN ks |-> <<ks[i], vs[i]>>]

\* The argument is any dict of 1 to MaxItems items over PureKeys and
\* PureValues.
InitPure ==
    /\ cache = {}
    /\ now = 0
    /\ py_version \in PyVersions
    /\ passed = <<>>
    /\ host = QuietHost
    /\ probe = IdleProbe
    /\ procs = IdleProcs
    /\ disk = ReadyDisk
    /\ \E n \in 1..MaxItems :
           \E ks \in [1..n -> PureKeys], vs \in [1..n -> PureValues] :
               /\ \A i, j \in 1..n : ks[i] = ks[j] => i = j
               /\ last = Call("none", DictOf(ks, vs), FALSE, NoRun, {})

\* self.normalize_header_names(headers)
Normalize ==
    /\ last.op = "none"
    /\ last' = Call("normalize_header_names", last.headers, FALSE,
                    [NoRun EXCEPT
                         !.source = last.headers,
                         !.result = normalize_header_names(last.headers)],
                    {})
    /\ passed' = ArgAfterNormalize(last.headers)
    /\ UNCHANGED <<cache, now, py_version>>
    /\ UNCHANGED others

NextPure == Normalize

SpecPure == InitPure /\ [][NextPure]_vars

(***************************************************************************)
(* The methods that take a mapping from the caller, called one after the   *)
(* other on one getter.                                                    *)
(***************************************************************************)
\* self.normalize_header_names(headers)
NormalizeHeaderNames(headers) ==
    /\ last' = Call("normalize_header_names", headers, FALSE,
                    [NoRun EXCEPT
                         !.source = headers,
                         !.result = normalize_header_names(headers)],
                    {})
    /\ passed' = ArgAfterNormalize(headers)
    /\ UNCHANGED <<cache, now, py_version>>
    /\ UNCHANGED others

NextArgs ==
    \/ \E headers \in Overrides \cup {<<>>}, skip_cache \in BOOLEAN :
           get_all(headers, skip_cache)
    \/ \E headers \in Overrides \cup {<<>>}, skip_cache \in BOOLEAN :
           get_safe(headers, skip_cache)
    \/ \E headers \in StoredSets \cup Overrides : SaveCache(headers)
    \/ \E headers \in StoredSets \cup Overrides : NormalizeHeaderNames(headers)

SpecArgs == Init /\ [][NextArgs]_vars

(***************************************************************************)
(* _get_uncached, statement by statement, inside a call of get_all that    *)
(* found nothing in the cache or was told to skip it.  Other programs hold *)
(* ports and may connect to the probe server as the browser does.          *)
(***************************************************************************)
\* The most draws of a port the model counts: a counter stays there.
MaxDraws == 3

\* The most connections waiting for the server at once
MaxBacklog == 2

\* The ports the model tells apart: the ends of the range the code draws
\* from, one inside it, and their neighbours outside it.
SamplePorts == {1023, 1024, 40000, 65534, 65535}

\* The sampled values of random.randrange(start, stop)
RandRange(start, stop) == {p \in SamplePorts : start <= p /\ p < stop}

\* The platforms the module has branches for (Linux, and macOS through
\* platform.mac_ver) and what errno they give a failed bind.
Platforms == {"linux", "darwin"}

EADDRINUSE == [ linux |-> 98, darwin |-> 48 ]

EACCES == [ linux |-> 13, darwin |-> 13 ]

\* The machines a call may run on
Hosts ==
    { [ platform |-> pf, in_use |-> u, denied |-> d ] :
          pf \in Platforms,
          u \in SUBSET RandRange(1024, 65535),
          d \in {{}, {40000}} }

\* err.errno of the socket.error that HTTPServer(server_address, ...) raises
\* on host h, 0 when it binds and listens
BindErrno(h, port) ==
    IF port \in h.denied THEN EACCES[h.platform]
    ELSE IF port \in h.in_use THEN EADDRINUSE[h.platform]
    ELSE 0

\* A loop that retries whatever the error
PortTaken_Any(errno) == TRUE

\* not (err.errno != 98)
PortTaken(errno) == errno = 98

\* n + 1, as far as the model counts
Count(n) == IF n < MaxDraws THEN n + 1 ELSE n

\* What the handler finds in self.headers: Python 2's message class keeps
\* header names in lower case, Python 3's as they were sent.
MessageItems(version, headers) ==
    IF version = 2
    THEN [i \in DOMAIN headers |-> <<lower(headers[i][1]), headers[i][2]>>]
    ELSE headers

\* server_address = ('', random.randrange(1024, 65535))
DrawPort(pr, port) ==
    [ pr EXCEPT !.server_address = port, !.draws = Count(pr.draws),
                !.pc = "bind" ]

\* HTTPServer(...) that creates the socket and neither binds nor listens
HTTPServerInit_NotListening(pr, h) ==
    [ pr EXCEPT !.binds = Count(pr.binds), !.port_found = TRUE,
                !.sockets = {pr.server_address}, !.pc = "open" ]

\* try: httpd = HTTPServer(server_address, ...): bind and listen; a failed
\* constructor closes its socket.  except socket.error: raise unless the
\* errno is 98.  else: port_found = True.
HTTPServerInit(pr, h) ==
    LET errno == BindErrno(h, pr.server_address)
    IN  IF errno = 0
        THEN [ pr EXCEPT !.binds = Count(pr.binds), !.port_found = TRUE,
                         !.listener = pr.server_address,
                         !.sockets = {pr.server_address}, !.pc = "open" ]
        ELSE IF PortTaken(errno)
        THEN [ pr EXCEPT !.binds = Count(pr.binds), !.pc = "draw" ]
        ELSE [ pr EXCEPT !.binds = Count(pr.binds), !.pc = "raised",
                         !.errno = errno, !.error = "socket.error" ]

\* request_url = 'http://localhost:%d' % server_address[1]
\* webbrowser_open(request_url)
webbrowser_open(pr) ==
    [ pr EXCEPT !.request_url = pr.server_address,
                !.opened = Append(pr.opened, pr.server_address),
                !.pc = "serve" ]

\* webbrowser_open(request_url) where subprocess.Popen(['xdg-open', url])
\* finds no xdg-open to run: Popen raises OSError, which neither
\* webbrowser_open nor _get_uncached catches, and the statements after the
\* call (handle_request, server_close, socket.close) are not reached.
webbrowser_open_raises(pr) ==
    [ pr EXCEPT !.request_url = pr.server_address,
                !.pc = "raised", !.error = "OSError" ]

\* The requests that reach the server: the browser's GET of the probe URL
\* with the headers of one of ProbedSets, and what another program may
\* send (a HEAD, a method the handler has no do_ method for, or nothing
\* before it hangs up).
Requests ==
    { [ from |-> "browser", method |-> "GET", headers |-> h ] :
          h \in ProbedSets }
    \cup
    { [ from |-> "other", method |-> m,
        headers |-> << <<Str("User-Agent"), "scan">> >> ] :
          m \in {"HEAD", "POST", ""} }

\* httpd.serve_forever(): the requests are handled and the call goes on
\* waiting for more.
handle_request_Forever(pr, version) ==
    LET req == Head(pr.backlog)
        ok  == req.method \in {"GET", "HEAD"}
    IN  [ pr EXCEPT !.backlog = Tail(pr.backlog),
                    !.answered = Append(pr.answered,
                                        [ request |-> req,
                                          status |-> IF ok THEN 200
                                                     ELSE IF req.method = ""
                                                     THEN 0 ELSE 501 ]),
                    !.harvested = IF ok /\ pr.harvested = <<>>
                                  THEN Append(pr.harvested,
                                              MessageItems(version, req.headers))
                                  ELSE pr.harvested ]

\* httpd.handle_request(): accept one connection and handle its request.
\* do_GET and do_HEAD append self.headers to harvested_headers and answer
\* 200; any other request line is answered by the base class (501, 400) or
\* not at all.
handle_request(pr, version) ==
    LET req == Head(pr.backlog)
        ok  == req.method \in {"GET", "HEAD"}
    IN  [ pr EXCEPT !.backlog = Tail(pr.backlog),
                    !.served = Count(pr.served),
                    !.answered = Append(pr.answered,
                                        [ request |-> req,
                                          status |-> IF ok THEN 200
                                                     ELSE IF req.method = ""
                                                     THEN 0 ELSE 501 ]),
                    !.harvested = IF ok
                                  THEN Append(pr.harvested,
                                              MessageItems(version, req.headers))
                                  ELSE pr.harvested,
                    !.pc = "close" ]

\* _get_uncached returning with the server still listening
server_close_Leak(pr) == [ pr EXCEPT !.pc = "pop" ]

\* httpd.server_close(); httpd.socket.close(): connections still waiting
\* are dropped with the listening socket.
server_close(pr) ==
    [ pr EXCEPT !.listener = 0, !.sockets = {}, !.backlog = <<>>,
                !.pc = "pop" ]

\* get_all() reaches `headers or self._get_uncached()` with nothing from the
\* cache: the lookup and clear_expired() are done, _get_uncached begins.
EnterGetUncached(skip_cache) ==
    /\ probe.pc \in {"idle", "done", "raised"}
    /\ NeedsProbe(CacheLookup(skip_cache, cache, py_version))
    /\ cache' = clear_expired(cache, now)
    /\ probe' = [IdleProbe EXCEPT !.pc = "draw", !.skip_cache = skip_cache]
    /\ last' = NoCall
    /\ passed' = <<>>
    /\ UNCHANGED <<now, py_version, host, procs, disk>>

\* One draw of the loop `while not port_found`
RandomPort ==
    /\ probe.pc = "draw"
    /\ \E port \in RandRange(1024, 65535) : probe' = DrawPort(probe, port)
    /\ UNCHANGED <<cache, now, py_version, last, passed, host, procs, disk>>

\* The try statement of the loop
BindPort ==
    /\ probe.pc = "bind"
    /\ probe' = HTTPServerInit(probe, host)
    /\ UNCHANGED <<cache, now, py_version, last, passed, host, procs, disk>>

OpenBrowser ==
    /\ probe.pc = "open"
    /\ probe' = webbrowser_open(probe)
    /\ UNCHANGED <<cache, now, py_version, last, passed, host, procs, disk>>

\* os.name == 'posix' and not platform.mac_ver()[0]: xdg-open is run, and
\* may be missing from the machine.
OpenBrowserRaises ==
    /\ probe.pc = "open"
    /\ host.platform = "linux"
    /\ probe' = webbrowser_open_raises(probe)
    /\ UNCHANGED <<cache, now, py_version, last, passed, host, procs, disk>>

\* A client connects to the listening socket and sends req.  The browser
\* does so once for each time it was opened, at the port of the URL it was
\* given; a connection to a port nobody listens on is refused.
Connect(req) ==
    /\ probe.listener # 0
    /\ Len(probe.backlog) < MaxBacklog
    /\ req.from = "browser" =>
           /\ probe.visited < Len(probe.opened)
           /\ probe.opened[Len(probe.opened)] = probe.listener
    /\ probe' = [ probe EXCEPT
                    !.backlog = Append(probe.backlog, req),
                    !.visited = IF req.from = "browser"
                                THEN probe.visited + 1 ELSE probe.visited ]
    /\ UNCHANGED <<cache, now, py_version, last, passed, host, procs, disk>>

\* httpd.handle_request() blocks until a connection waits.
HandleRequest ==
    /\ probe.pc = "serve"
    /\ probe.backlog # <<>>
    /\ probe' = handle_request(probe, py_version)
    /\ UNCHANGED <<cache, now, py_version, last, passed, host, procs, disk>>

ServerClose ==
    /\ probe.pc = "close"
    /\ probe' = server_close(probe)
    /\ UNCHANGED <<cache, now, py_version, last, passed, host, procs, disk>>

\* return harvested_headers.pop(), and the rest of get_all: _save_cache and
\* the filtered result.  pop() of an empty list raises IndexError, which
\* get_all lets through.
ReturnHarvested ==
    /\ probe.pc = "pop"
    /\ IF probe.harvested # <<>>
       THEN \E headers \in {probe.harvested[Len(probe.harvested)]} :
                /\ cache' = _save_cache(cache, py_version, headers, now)
                /\ probe' = [ probe EXCEPT
                                !.harvested = SubSeq(probe.harvested, 1,
                                                  Len(probe.harvested) - 1),
                                !.saved = TRUE, !.pc = "done" ]
                /\ last' = Call("get_all", <<>>, probe.skip_cache,
                                [ NoRun EXCEPT
                                    !.source = headers, !.put = headers,
                                    !.reads = IF probe.skip_cache THEN 0 ELSE 1,
                                    !.purges = 1, !.probes = 1, !.writes = 1,
                                    !.result = FilterNotIn(
                                        normalize_header_names(headers),
                                        unsafe_headers) ],
                                cache \ cache')
       ELSE /\ probe' = [probe EXCEPT !.pc = "raised", !.error = "IndexError"]
            /\ UNCHANGED <<cache, last>>
    /\ UNCHANGED <<now, py_version, passed, host, procs, disk>>

\* A call on any of the machines, with a cache that is new.
InitProbe ==
    /\ cache = {}
    /\ now = 0
    /\ py_version \in PyVersions
    /\ last = NoCall
    /\ passed = <<>>
    /\ host \in Hosts
    /\ probe = IdleProbe
    /\ procs = IdleProcs
    /\ disk = ReadyDisk

NextProbe ==
    \/ \E skip_cache \in BOOLEAN : EnterGetUncached(skip_cache)
    \/ RandomPort
    \/ BindPort
    \/ OpenBrowser
    \/ OpenBrowserRaises
    \/ \E req \in Requests : Connect(req)
    \/ HandleRequest
    \/ ServerClose
    \/ ReturnHarvested

SpecProbe == InitProbe /\ [][NextProbe]_vars

\* A statement of _get_uncached that can run does run: the process is not
\* suspended for ever between two statements.
ProgramStep ==
    \/ RandomPort
    \/ BindPort
    \/ OpenBrowser
    \/ OpenBrowserRaises
    \/ HandleRequest
    \/ ServerClose
    \/ ReturnHarvested

SpecProbeFair == SpecProbe /\ WF_vars(ProgramStep)

(***************************************************************************)
(* Two processes, each with its own connection to one cache file, in       *)
(* get_all() at the same time.  A step is one SQL statement, one row of    *)
(* executemany, or one commit.  SQLite lets one connection at a time hold  *)
(* a write transaction; another that needs one waits, and after the        *)
(* connection's timeout gets "database is locked".                         *)
(***************************************************************************)
Procs == {1, 2}

\* What a statement on the cache file leaves alone
alone == <<now, py_version, last, passed, host, probe, disk>>

\* A process of interpreter `version` outside get_all
IdleProc(version) ==
    [ version |-> version, pc |-> "idle", headers |-> <<>>, written |-> 0,
      ts |-> 0, probed |-> FALSE ]

\* p is in a write transaction it has not committed.
InTransaction(pr) ==
    \/ pr.pc \in {"purge_commit", "save_commit"}
    \/ pr.pc = "save" /\ pr.written > 0

\* No other connection holds the write lock.
LockFree(p) == \A q \in Procs \ {p} : ~InTransaction(procs[q])

\* A connection in autocommit mode: each statement is on disk as it ends.
Published_Autocommit(committed, image) == image

\* What the file holds after a statement of an open transaction that left
\* the tables as `image` in the connection: the sqlite3 module has begun a
\* transaction before the statement, and the file changes at commit().
Published(committed, image) == committed

\* get_all(skip_cache=...) begins: self._get_cache() if not skip_cache else {}
ProcLookup(p, skip_cache) ==
    /\ procs[p].pc = "idle"
    /\ procs' = [procs EXCEPT ![p] =
                    [@ EXCEPT !.pc = "purge",
                              !.headers = CacheLookup(skip_cache, cache,
                                                      procs[p].version)]]
    /\ UNCHANGED cache
    /\ UNCHANGED alone

\* clear_expired(): the DELETE statement
ProcDelete(p) ==
    /\ procs[p].pc = "purge"
    /\ LockFree(p)
    /\ procs' = [procs EXCEPT ![p] = [@ EXCEPT !.pc = "purge_commit",
                                               !.ts = now]]
    /\ cache' = Published(cache, clear_expired(cache, now))
    /\ UNCHANGED alone

\* clear_expired(): self.cache_conn.commit()
ProcCommitPurge(p) ==
    /\ procs[p].pc = "purge_commit"
    /\ cache' = clear_expired(cache, procs[p].ts)
    /\ procs' = [procs EXCEPT ![p] =
                    [@ EXCEPT !.pc = IF NeedsProbe(procs[p].headers)
                                     THEN "probe" ELSE "save",
                              !.ts = 0]]
    /\ UNCHANGED alone

\* headers or self._get_uncached()
ProcProbe(p, probed) ==
    /\ procs[p].pc = "probe"
    /\ procs' = [procs EXCEPT ![p] = [@ EXCEPT !.pc = "save",
                                               !.headers = probed,
                                               !.probed = TRUE]]
    /\ UNCHANGED cache
    /\ UNCHANGED alone

\* _save_cache(): ts_expires, and the next row of executemany
ProcInsertRow(p) ==
    /\ procs[p].pc = "save"
    /\ LockFree(p)
    /\ \E ts \in {IF procs[p].written = 0
                  THEN now + cache_timeout ELSE procs[p].ts} :
           /\ cache' = Published(cache,
                           ExecuteMany(cache, procs[p].version,
                                       procs[p].headers, ts,
                                       procs[p].written + 1))
           /\ procs' = [procs EXCEPT ![p] =
                           [@ EXCEPT !.written = @ + 1,
                                     !.ts = ts,
                                     !.pc = IF procs[p].written + 1
                                                 = Len(procs[p].headers)
                                            THEN "save_commit" ELSE "save"]]
    /\ UNCHANGED alone

\* _save_cache(): self.cache_conn.commit(), and get_all returns
ProcCommitSave(p) ==
    /\ procs[p].pc = "save_commit"
    /\ cache' = ExecuteMany(cache, procs[p].version, procs[p].headers,
                            procs[p].ts, Len(procs[p].headers))
    /\ procs' = [procs EXCEPT ![p] = IdleProc(@.version)]
    /\ UNCHANGED alone

\* The statement that needs the write lock has waited for it as long as
\* the connection's timeout: sqlite3.OperationalError leaves get_all.
ProcLocked(p) ==
    /\ procs[p].pc \in {"purge", "save"}
    /\ ~InTransaction(procs[p])
    /\ ~LockFree(p)
    /\ procs' = [procs EXCEPT ![p] = IdleProc(@.version)]
    /\ UNCHANGED cache
    /\ UNCHANGED alone

\* Time passes while the processes run.
TickProcs ==
    /\ now < MaxNow
    /\ now' = now + 1
    /\ UNCHANGED <<cache, procs>>
    /\ UNCHANGED <<py_version, last, passed, host, probe, disk>>

InitProcs ==
    /\ cache = {}
    /\ now = 0
    /\ py_version \in PyVersions
    /\ last = NoCall
    /\ passed = <<>>
    /\ host = QuietHost
    /\ probe = IdleProbe
    /\ procs = [p \in Procs |-> IdleProc(IF p = 1 THEN py_version
                                         ELSE FallbackVersion)]
    /\ disk = ReadyDisk

NextProcs ==
    \/ \E p \in Procs, skip_cache \in BOOLEAN : ProcLookup(p, skip_cache)
    \/ \E p \in Procs : ProcDelete(p)
    \/ \E p \in Procs : ProcCommitPurge(p)
    \/ \E p \in Procs, probed \in ProbedSets : ProcProbe(p, probed)
    \/ \E p \in Procs : ProcInsertRow(p)
    \/ \E p \in Procs : ProcCommitSave(p)
    \/ \E p \in Procs : ProcLocked(p)
    \/ TickProcs

SpecProcs == InitProcs /\ [][NextProcs]_vars

(***************************************************************************)
(* The constructor on a cache directory and store in any condition, and    *)
(* get_all on a store that was damaged after (or before) the getter was    *)
(* built                                                                   *)
(***************************************************************************)
\* errno.EEXIST
EEXIST == [ linux |-> 17, darwin |-> 17 ]

\* What the file system may hold at the cache path: the directory is
\* missing and can be made ("absent"), is missing under a parent that
\* cannot be written ("blocked"), exists without write access and without a
\* store ("readonly"), or exists; cache.sqlite3 is missing, is a database
\* with the schema ("present"), is a database whose schema can be read and
\* whose table pages are damaged ("malformed"), or is not a database at all
\* ("garbage").
Disks ==
    { [ dir |-> d[1], file |-> d[2], getter |-> "none", error |-> "none" ] :
          d \in { <<"absent", "absent">>, <<"blocked", "absent">>,
                   <<"readonly", "absent">>, <<"present", "absent">>,
                   <<"present", "present">>, <<"present", "malformed">>,
                   <<"present", "garbage">> } }

\* The errno os.makedirs(path) fails with, 0 when it makes the directory
MakedirsErrno(d, platform) ==
    CASE d.dir = "absent"  -> 0
      [] d.dir = "blocked" -> EACCES[platform]
      [] OTHER             -> EEXIST[platform]

\* The constructor re-raising EEXIST like any other error of os.makedirs
ExistOk_Never(errno, platform) == FALSE

\* `if not err.errno == errno.EEXIST: raise`
ExistOk(errno, platform) == errno = EEXIST[platform]

\* UserHeaderGetter.__init__: os.makedirs, then sqlite3.connect, then
\* executescript(cache_schema), whose statements are CREATE ... IF NOT EXISTS
__init__(d, platform) ==
    LET errno == MakedirsErrno(d, platform)
        dir   == IF d.dir = "absent" THEN "present" ELSE d.dir
    IN  IF errno # 0 /\ ~ExistOk(errno, platform)
        THEN [d EXCEPT !.getter = "none", !.error = "OSError"]
        ELSE IF dir = "readonly" /\ d.file = "absent"
        THEN [d EXCEPT !.getter = "none", !.error = "OperationalError"]
        ELSE IF d.file = "garbage"
        THEN [d EXCEPT !.dir = dir, !.getter = "none",
                       !.error = "DatabaseError"]
        ELSE [ dir |-> dir,
               file |-> IF d.file = "absent" THEN "present" ELSE d.file,
               getter |-> "ready", error |-> "none" ]

\* UserHeaderGetter(path) in a process of interpreter `version`
ConstructOnDisk(version) ==
    /\ disk' = __init__(disk, host.platform)
    /\ py_version' = version
    /\ last' = [NoCall EXCEPT !.op = "__init__"]
    /\ passed' = <<>>
    /\ UNCHANGED <<cache, now, host, probe, procs>>

\* get_all(skip_cache=...) on the getter: on a damaged store the first
\* statement sent to SQLite (the SELECT of _get_cache, or the DELETE of
\* clear_expired under skip_cache) raises sqlite3.DatabaseError, and nothing
\* in get_all catches it.
GetAllOnDisk(skip_cache) ==
    /\ disk.getter = "ready"
    /\ IF disk.file = "present"
       THEN get_all(<<>>, skip_cache)
       ELSE /\ disk' = [disk EXCEPT !.error = "DatabaseError"]
            /\ last' = Call("get_all", <<>>, skip_cache,
                            [NoRun EXCEPT
                                !.reads  = IF skip_cache THEN 0 ELSE 1,
                                !.purges = IF skip_cache THEN 1 ELSE 0],
                            {})
            /\ passed' = <<>>
            /\ UNCHANGED <<cache, now, py_version, host, probe, procs>>

\* Something outside the program damages cache.sqlite3.
Corrupt(kind) ==
    /\ disk.file = "present"
    /\ disk' = [disk EXCEPT !.file = kind]
    /\ UNCHANGED <<cache, now, py_version, last, passed, host, probe, procs>>

InitDisk ==
    /\ cache = {}
    /\ now = 0
    /\ py_version \in PyVersions
    /\ last = NoCall
    /\ passed = <<>>
    /\ host \in {[QuietHost EXCEPT !.platform = pf] : pf \in Platforms}
    /\ probe = IdleProbe
    /\ procs = IdleProcs
    /\ disk \in Disks

NextDisk ==
    \/ \E version \in PyVersions : ConstructOnDisk(version)
    \/ \E skip_cache \in BOOLEAN : GetAllOnDisk(skip_cache)
    \/ \E kind \in {"malformed", "garbage"} : Corrupt(kind)
    \/ Tick

SpecDisk == InitDisk /\ [][NextDisk]_vars

(***************************************************************************)
(* Properties of get_all and get_safe, checked under Spec.  In a state     *)
(* where last.op is not "none", last describes the call that has just      *)
(* returned: no time has passed since and `now` is the time of the call.   *)
(***************************************************************************)
UnsafeLower == {lower(u) : u \in unsafe_headers}

\* a and b differ in the case of their letters at most.
SameNoCase(a, b) == lower(a) = lower(b)

\* Every pair of d carries the value d0 held under a key that differs from
\* the pair's key in case at most.
ValuesFrom(d, d0) ==
    \A p \in Items(d) :
        \E q \in Items(d0) : lower(q[1]) = lower(p[1]) /\ q[2] = p[2]

ScenarioOverride == << <<Str("foo"), "Bar">>, <<Str("cookie"), "secret">> >>

\* C1: whatever the arguments and whichever way the header set was obtained
\* (override, cache, live probe), no key of the mapping get_all returns
\* matches a name of unsafe_headers, whatever the case of its letters; and
\* get_all({foo: Bar, cookie: secret}) is {Foo: Bar}.
C1_GetAllNeverReturnsUnsafe ==
    last.op = "get_all" =>
        /\ \A k \in Keys(last.result) : lower(k) \notin UnsafeLower
        /\ last.headers = ScenarioOverride =>
               Items(last.result) = {<<Str("Foo"), "Bar">>}

\* get_all was served from the cache, the cached set held an unsafe header
\* and the call returned the rest of it.
C1_Witness ==
    /\ last.op = "get_all"
    /\ last.headers = <<>>
    /\ last.probes = 0
    /\ \E k \in Keys(last.source) : lower(k) \in UnsafeLower
    /\ last.result # <<>>

\* C2: the keys get_safe returns are exactly the names of safe_headers that
\* some key of the header set it obtained matches up to case, and each
\* carries a value the obtained set held for that name.
C2_GetSafeReturnsExactlySafe ==
    last.op = "get_safe" =>
        /\ Keys(last.result) =
               {s \in safe_headers :
                   \E k \in Keys(last.source) : lower(k) = lower(s)}
        /\ ValuesFrom(last.result, last.source)

\* get_safe was served from the cache and dropped some of what it read.
C2_Witness ==
    /\ last.op = "get_safe"
    /\ last.headers = <<>>
    /\ last.probes = 0
    /\ last.result # <<>>
    /\ Len(last.result) < Len(last.source)

\* C3: a get_all call without override that is served from the cache read
\* no entry that had expired by the time of the call, and a lookup that
\* finds only expired entries is followed by a live probe.
C3_ExpiredEntriesNeverServed ==
    (last.op = "get_all" /\ last.headers = <<>> /\ ~last.skip_cache) =>
        /\ last.probes = 0 => \A r \in last.read : ~(r.expires < now)
        /\ (\A r \in last.read : r.expires < now) => last.probes = 1

\* C4: a call without override probes exactly once and stores what the
\* probe harvested when skip_cache is set (and then reads no cache) or the
\* lookup found nothing; when the lookup found entries it does not probe.
C4_ProbeExactlyOnAbsence ==
    (last.op \in {"get_all", "get_safe"} /\ last.headers = <<>>) =>
        /\ last.skip_cache => last.reads = 0 /\ last.read = {}
        /\ ~last.skip_cache => last.reads = 1
        /\ IF last.skip_cache \/ last.read = {}
           THEN /\ last.probes = 1
                /\ last.source \in ProbedSets
                /\ last.writes = 1
                /\ last.put = last.source
                /\ \A p \in Items(last.source) :
                       Row(py_version, p[1], p[2], now + cache_timeout)
                           \in cache
           ELSE last.probes = 0

\* A call with skip_cache probed although the store held entries it could
\* have read, and one without skip_cache found entries and did not probe.
C4_Witness ==
    /\ last.op = "get_safe"
    /\ last.headers = <<>>
    /\ last.skip_cache
    /\ last.probes = 1
    /\ \E r \in cache : r.py_version = py_version /\ r.expires < now + cache_timeout

\* C5: a call with a non-empty override reads, purges and writes no cache
\* and probes nothing, leaves every stored entry as it was, and returns
\* only values of the override.
C5_OverrideBypassesCache ==
    /\ []((last.op \in {"get_all", "get_safe"} /\ last.headers # <<>>) =>
              /\ last.reads = 0 /\ last.purges = 0
              /\ last.writes = 0 /\ last.probes = 0
              /\ last.source = last.headers
              /\ ValuesFrom(last.result, last.headers))
    /\ [][(last'.op \in {"get_all", "get_safe"} /\ last'.headers # <<>>)
              => cache' = cache]_vars

\* An override was filtered while the store held entries.
C5_Witness ==
    /\ last.op = "get_all"
    /\ last.headers # <<>>
    /\ last.result # <<>>
    /\ cache # {}

(***************************************************************************)
(* Properties of the store, checked under SpecStore.                       *)
(***************************************************************************)
\* No two keys of d differ in case only.
UniqueNoCase(d) ==
    \A i, j \in DOMAIN d : SameNoCase(d[i][1], d[j][1]) => i = j

\* The rows of the running version's own tag.
OwnRows == SelectVersion(cache, py_version)

\* Some key of d matches k up to case.
HasKeyNoCase(d, k) == \E h \in Keys(d) : SameNoCase(h, k)

\* C6, as the spec states it: _save_cache(H), for H with keys unique up to
\* case, followed by _get_cache() returns exactly the mapping H.
C6_RoundTripExact ==
    (last.op = "_get_cache" /\ last.headers # <<>>
                            /\ UniqueNoCase(last.headers)) =>
        Items(last.result) = Items(last.headers)

\* C6, amended: _save_cache(H), for a non-empty H with keys unique up to
\* case, followed by _get_cache() returns a mapping that holds every
\* key -> value pair of H with the key as written; it is exactly H when the
\* store holds no entry under the version tag with a key outside H, and
\* the entries merged from earlier writes are what it holds besides; a
\* repeated read returns the same mapping.
C6_RoundTripContains ==
    (last.op = "_get_cache" /\ last.headers # <<>>
                            /\ UniqueNoCase(last.headers)) =>
        /\ Items(last.headers) \subseteq Items(last.result)
        /\ (\A r \in OwnRows : HasKeyNoCase(last.headers, r.key)) =>
               Items(last.result) = Items(last.headers)
        /\ Items(last.result) = {<<r.key, r.value>> : r \in OwnRows}
        /\ Items(_get_cache(cache, py_version)) = Items(last.result)

\* {a: 3} was written over an entry A and read back as written, alone.
C6_Witness ==
    /\ last.op = "_get_cache"
    /\ last.headers = << <<Str("a"), "3">> >>
    /\ Items(last.result) = {<<Str("a"), "3">>}
    /\ now > 0

\* C7: the store never holds two entries of one version tag whose keys
\* differ in case at most; a put of a key leaves, for that key, the one
\* entry with the value put last and expires = now + cache_timeout, and
\* every entry it displaced had one of the keys put, in some casing.
C7_UniqueKeyUpsert ==
    /\ \A r1, r2 \in cache :
           (r1.py_version = r2.py_version /\ SameNoCase(r1.key, r2.key))
               => r1 = r2
    /\ last.op = "_save_cache" =>
           /\ \A i \in DOMAIN last.headers :
                  (\A j \in DOMAIN last.headers :
                       SameNoCase(last.headers[j][1], last.headers[i][1])
                           => j <= i)
                  => Row(py_version, last.headers[i][1], last.headers[i][2],
                         now + cache_timeout) \in cache
           /\ \A r \in OwnRows :
                  HasKeyNoCase(last.headers, r.key)
                      => r.expires = now + cache_timeout
           /\ \A r \in last.removed :
                  r.py_version = py_version /\ HasKeyNoCase(last.headers, r.key)

\* A put of {a: 3} displaced an entry written earlier under the key A.
C7_Witness ==
    /\ last.op = "_save_cache"
    /\ last.headers = << <<Str("a"), "3">> >>
    /\ \E r \in last.removed :
           r.key = Str("A") /\ r.expires < now + cache_timeout
    /\ Cardinality(OwnRows) = 1

\* C8: a put deletes and modifies no entry whose key is not, in any casing,
\* a key of the header set written.
C8_MergeNotShrink ==
    [][last'.op = "_save_cache" =>
          \A r \in cache :
              (r.py_version # py_version \/ ~HasKeyNoCase(last'.headers, r.key))
                  => r \in cache']_vars

\* {A: 1} was written, then {B: 2}, and the read returns both.
C8_Witness ==
    /\ last.op = "_get_cache"
    /\ last.headers = << <<Str("B"), "2">> >>
    /\ Items(last.result) = {<<Str("A"), "1">>, <<Str("B"), "2">>}
    /\ \E r1, r2 \in OwnRows : r1.expires < r2.expires

\* C9: clear_expired deletes exactly the entries with expires < now; the
\* cache read does not look at expires, so that it returns an expired entry
\* until the purge has run.
C9_PurgeExactlyExpired ==
    /\ [][last'.op = "clear_expired" =>
             cache' = {r \in cache : ~(r.expires < now)}]_vars
    /\ [](last.op = "clear_expired" =>
             /\ \A r \in last.removed : r.expires < now
             /\ \A r \in cache : r.expires >= now)
    /\ [](last.op = "_get_cache" =>
             \A r \in OwnRows : <<r.key, r.value>> \in Items(last.result))

\* A purge deleted an expired entry and kept one that expires just now.
C9_Witness ==
    /\ last.op = "clear_expired"
    /\ last.removed # {}
    /\ \E r \in cache : r.expires = now

\* An expired entry was returned by a read that no purge preceded.
C9_WitnessRead ==
    /\ last.op = "_get_cache"
    /\ \E r \in OwnRows :
           r.expires < now /\ <<r.key, r.value>> \in Items(last.result)

(***************************************************************************)
(* Properties of normalize_header_names, checked under SpecPure.  Header   *)
(* names are made of ASCII letters, digits and "-".                        *)
(***************************************************************************)
\* C10: normalize_header_names is idempotent: normalising the dict it
\* returned gives a dict equal to it.
C10_NormalizeIdempotent ==
    last.op = "normalize_header_names" =>
        Items(normalize_header_names(last.result)) = Items(last.result)

\* Two keys that differ in case only were folded into one known header
\* whose canonical form is not what str.title() gives.
C10_Witness ==
    /\ last.op = "normalize_header_names"
    /\ Len(last.result) < Len(last.headers)
    /\ \E k \in Keys(last.result) : k \in known_headers /\ k # title(k)

\* The key normalize_header_names is to give for the key k: the known header
\* that k matches up to case, or else k title-cased.
CanonOf ==
    [l \in {lower(h) : h \in known_headers} |->
        CHOOSE h \in known_headers : SameNoCase(h, l)]

Canon(k) ==
    IF lower(k) \in DOMAIN CanonOf THEN CanonOf[lower(k)] ELSE title(k)

\* C11: normalize_header_names rewrites only keys.  The keys of the result
\* are the canonical spelling of each key of the argument that matches a
\* known header up to case and the title-cased form of each other key, no
\* key twice; the value under a key of the result is the value of the last
\* item of the argument whose key is rewritten to it.
C11_NormalizeRewritesOnlyKeys ==
    last.op = "normalize_header_names" =>
        /\ Keys(last.result) = {Canon(k) : k \in Keys(last.headers)}
        /\ Cardinality(Keys(last.result)) = Len(last.result)
        /\ \A p \in Items(last.result) :
               \E i \in DOMAIN last.headers :
                   /\ Canon(last.headers[i][1]) = p[1]
                   /\ last.headers[i][2] = p[2]
                   /\ \A j \in DOMAIN last.headers :
                          j > i => Canon(last.headers[j][1]) # p[1]

\* Two keys that differ in case only, with different values, were rewritten
\* to one known header, and the value of the second was kept.
C11_Witness ==
    /\ last.op = "normalize_header_names"
    /\ Len(last.headers) = 2
    /\ last.headers[1][1] # last.headers[2][1]
    /\ last.headers[1][2] # last.headers[2][2]
    /\ Len(last.result) = 1
    /\ last.result[1][1] \in known_headers
    /\ last.result[1][2] = last.headers[2][2]

(***************************************************************************)
(* The two filters on one header set, checked under Spec.                  *)
(***************************************************************************)
\* The keys get_all is to return for the header set h: the rewritten keys
\* that are not unsafe headers.
AllKeys(h) == {Canon(k) : k \in Keys(h)} \ unsafe_headers

\* The keys get_all is to drop from the header set h
DroppedKeys(h) == {Canon(k) : k \in Keys(h)} \cap unsafe_headers

\* C13 as claimed: the keys get_safe returns for a header set and the keys
\* get_all returns for that header set are disjoint.
C13_SafeAndAllDisjoint ==
    last.op = "get_safe" =>
        Keys(last.result) \cap AllKeys(last.source) = {}

\* C13 as amended: safe_headers and unsafe_headers are disjoint; the keys
\* get_safe returns for a header set are among the keys get_all returns for
\* it and disjoint from the unsafe keys get_all drops from it, and get_all
\* returns every safe key of the set.
C13_SafeWithinAll ==
    /\ safe_headers \cap unsafe_headers = {}
    /\ last.op = "get_safe" =>
           /\ Keys(last.result) \subseteq AllKeys(last.source)
           /\ Keys(last.result) \cap DroppedKeys(last.source) = {}
           /\ Keys(last.result) \cap unsafe_headers = {}
    /\ last.op = "get_all" =>
           /\ AllKeys(last.source) \cap safe_headers \subseteq Keys(last.result)
           /\ Keys(last.result) \cap DroppedKeys(last.source) = {}

\* get_safe returned a safe header of a set that also holds an unsafe header
\* and one that is neither.
C13_Witness ==
    /\ last.op = "get_safe"
    /\ last.result # <<>>
    /\ DroppedKeys(last.source) # {}
    /\ AllKeys(last.source) \ safe_headers # {}

UsablePort(port) == 1024 <= port /\ port <= 65535

\* C14: a bind that fails with "address in use" makes the allocator draw
\* another port and try again without raising; it ends bound to the free
\* port, with one draw for each attempt, every drawn port in 1024..65535.
C14_CollisionRetried ==
    /\ ~(/\ probe.error = "socket.error"
         /\ probe.errno = EADDRINUSE[host.platform])
    /\ probe.draws > 0 => UsablePort(probe.server_address)
    /\ probe.draws = IF probe.pc = "bind" /\ probe.binds < MaxDraws
                     THEN probe.binds + 1 ELSE probe.binds
    /\ probe.port_found =>
           /\ probe.server_address \notin host.in_use
           /\ probe.pc \in {"open", "serve", "close"} =>
                  probe.listener = probe.server_address

\* C15: a bind failure other than "address in use" is not retried: the
\* attempt that meets it raises the error it met, and a call that raised
\* it has triggered no browser, served nothing, holds no socket and has
\* written nothing to the cache.
C15_OtherBindFailureRaised ==
    /\ [](probe.error = "socket.error" =>
              /\ probe.pc = "raised"
              /\ probe.errno # 0
              /\ probe.opened = <<>>
              /\ probe.served = 0
              /\ probe.sockets = {}
              /\ ~probe.saved)
    /\ [][(/\ probe.pc = "bind"
           /\ BindErrno(host, probe.server_address)
                  \notin {0, EADDRINUSE[host.platform]})
              => /\ probe'.pc = "raised"
                 /\ probe'.errno = BindErrno(host, probe.server_address)
                 /\ cache' = cache
                 /\ last' = last]_vars

\* On Linux the second attempt, after a collision, was denied the port.
C15_Witness ==
    /\ probe.pc = "raised"
    /\ probe.errno = EACCES[host.platform]
    /\ probe.binds = 2
    /\ host.platform = "linux"

\* Every port the allocator can draw is held by another program.
AllPortsTaken ==
    /\ host.denied = {}
    /\ \A port \in RandRange(1024, 65535) : port \in host.in_use

\* C16: when every drawn port is in use the allocator gives up after a
\* bounded number of attempts and raises an error.
C16_RetriesBounded ==
    (probe.pc = "draw" /\ AllPortsTaken) ~> (probe.pc = "raised")

\* C17: the probe server answers one request in a call and no more; once
\* the request is handled the call closes the listener, nothing can connect
\* after that, and when _get_uncached has returned, or has raised for
\* want of a port it may bind or of a captured request, no socket of it is
\* open.
C17_OneRequestThenClosed ==
    /\ [](/\ probe.served <= 1
          /\ Len(probe.answered) = probe.served
          /\ (\/ probe.pc \in {"pop", "done"}
              \/ probe.error \in {"socket.error", "IndexError"}) =>
                 /\ probe.listener = 0
                 /\ probe.sockets = {}
                 /\ probe.served = IF probe.error = "socket.error"
                                    THEN 0 ELSE 1
          /\ probe.listener = 0 => probe.backlog = <<>>)
    /\ [][probe'.served > probe.served =>
              /\ probe.pc = "serve"
              /\ probe.served = 0
              /\ probe'.pc = "close"]_vars
    /\ [][probe.pc = "close" =>
              \/ probe'.pc = "close" /\ probe'.served = probe.served
              \/ probe'.pc = "pop" /\ probe'.listener = 0]_vars

\* The call returned the headers of another program's request; the browser
\* had connected as well and was never answered.
C17_Witness ==
    /\ probe.pc = "done"
    /\ probe.served = 1
    /\ probe.visited = 1
    /\ probe.answered[1].request.from = "other"
    /\ probe.listener = 0

\* C18: a call of _get_uncached that has stopped waiting has captured one
\* header set, that of a GET or HEAD request, and returns it: no request
\* ends the call without one.
C18_CaptureYieldsHeaderSet ==
    /\ probe.pc \in {"close", "pop"} =>
           /\ Len(probe.harvested) = 1
           /\ probe.answered[1].request.method \in {"GET", "HEAD"}
    /\ probe.error # "IndexError"

\* C19: the browser is triggered when the listener is bound and listening,
\* once, with the port the listener is bound to, which is the port of the
\* attempt that succeeded.
C19_ListenerBeforeBrowser ==
    /\ [][probe'.opened # probe.opened /\ probe'.opened # <<>> =>
              /\ probe.listener # 0
              /\ probe.listener \in probe.sockets
              /\ probe'.opened = <<probe.listener>>
              /\ probe'.listener = probe.listener]_vars
    /\ [](probe.opened # <<>> =>
              /\ probe.request_url = probe.opened[1]
              /\ BindErrno(host, probe.opened[1]) = 0
              /\ probe.listener \in {0, probe.opened[1]})

\* The browser was triggered after the first port drawn was found taken.
C19_Witness ==
    /\ probe.pc = "serve"
    /\ probe.binds = 2
    /\ probe.opened = <<probe.listener>>
    /\ host.in_use # {}

(***************************************************************************)
(* Properties of two processes on one cache file, checked under SpecProcs. *)
(***************************************************************************)
\* The values of the dict d
Values(d) == {d[i][2] : i \in DOMAIN d}

\* d holds the value of the first header of a probed set and not that of
\* its second.
HalfPut(d) ==
    \E P \in ProbedSets : P[1][2] \in Values(d) /\ P[2][2] \notin Values(d)

\* C20: with two processes in get_all on one cache file, in any
\* interleaving, no two rows of the table ever agree on py_version and, up
\* to case, on key; the table as the other process can read it changes
\* only at a commit, from which on it holds every row of the header set
\* that was put (or lacks every row the purge deleted); and no header set
\* a process got from the cache holds part of what a single put wrote.
C20_TwoProcessesAtomicPut ==
    /\ [](\A r1, r2 \in cache :
              (r1.py_version = r2.py_version /\ SameNoCase(r1.key, r2.key))
                  => r1 = r2)
    /\ [][cache' # cache =>
              \E p \in Procs :
                  \/ /\ procs[p].pc = "purge_commit"
                     /\ cache' = {r \in cache : r.expires >= procs[p].ts}
                  \/ /\ procs[p].pc = "save_commit"
                     /\ procs'[p].pc = "idle"
                     /\ \A i \in DOMAIN procs[p].headers :
                            Row(procs[p].version, procs[p].headers[i][1],
                                procs[p].headers[i][2], procs[p].ts)
                                \in cache']_vars
    /\ [](\A q \in Procs : ~HalfPut(procs[q].headers))

\* One process has written the first of the two rows of its put, and the
\* other has meanwhile got from the cache a header set of an earlier put.
C20_Witness ==
    \E p, q \in Procs :
        /\ procs[p].pc = "save"
        /\ procs[p].written = 1
        /\ procs[p].version = procs[q].version
        /\ procs[q].pc = "purge"
        /\ procs[q].headers # <<>>
        /\ Values(procs[q].headers) # Values(procs[p].headers)
        /\ Row(procs[p].version, procs[p].headers[1][1],
               procs[p].headers[1][2], procs[p].ts) \notin cache

\* ---------------------------------------------------------------------
\* C21: a cache lookup returns exactly the entries of the running
\* interpreter's version when that version has any, otherwise exactly the
\* entries of version 3; it is empty only when both versions have none, and
\* what it returns never holds entries of two versions.
PairsOf(rows) == {<<r.key, r.value>> : r \in rows}

C21_LookupOrder ==
    last.op = "_get_cache" =>
        LET own      == SelectVersion(cache, py_version)
            fallback == SelectVersion(cache, FallbackVersion)
        IN  /\ own # {} => Items(last.result) = PairsOf(own)
            /\ own = {} => Items(last.result) = PairsOf(fallback)
            /\ (last.result = <<>>) <=> (own = {} /\ fallback = {})
            /\ \E v \in PyVersions : last.read \subseteq SelectVersion(cache, v)
            /\ Items(last.result) = PairsOf(last.read)

\* A Python 2 lookup with entries of both versions stored under different
\* values: the result is the version 2 entries alone.
C21_Witness ==
    /\ last.op = "_get_cache"
    /\ py_version = 2
    /\ OwnRows # {}
    /\ SelectVersion(cache, FallbackVersion) # {}
    /\ PairsOf(OwnRows) # PairsOf(SelectVersion(cache, FallbackVersion))
    /\ Items(last.result) = PairsOf(OwnRows)

\* A Python 2 lookup with no version 2 entry: the version 3 entries are served.
C21_WitnessFallback ==
    /\ last.op = "_get_cache"
    /\ py_version = 2
    /\ OwnRows = {}
    /\ last.result # <<>>

\* ---------------------------------------------------------------------
\* C22: constructing a getter raises exactly when the cache directory
\* cannot be made (missing under an unwritable parent) or the store cannot
\* be opened (no store in an unwritable directory, or a file that is not a
\* database); an existing directory and an initialised store are accepted,
\* and a construction, failed or not, leaves every stored entry in place.
CannotCreateDir == disk.dir = "blocked"

CannotOpenStore ==
    \/ disk.dir = "readonly" /\ disk.file = "absent"
    \/ disk.file = "garbage"

C22_ConstructorFailsOnlyOnStorage ==
    [][ last'.op = "__init__" /\ last.op # "__init__" =>
          /\ (disk'.error # "none") <=> (CannotCreateDir \/ CannotOpenStore)
          /\ (disk'.getter = "ready") <=> (disk'.error = "none")
          /\ disk'.error = "none" =>
                 /\ disk'.dir \in {"present", "readonly"}
                 /\ disk'.file \in {"present", "malformed"}
          /\ cache' = cache ]_vars

\* A getter was constructed without error on an existing directory whose
\* store already held entries, and they are all still there.
C22_Witness ==
    /\ last.op = "__init__"
    /\ disk.error = "none"
    /\ disk.getter = "ready"
    /\ cache # {}

\* A construction failed because its directory could not be made.
C22_WitnessRaised ==
    /\ last.op = "__init__"
    /\ disk.error = "OSError"
    /\ disk.getter = "none"

\* ---------------------------------------------------------------------
\* C23: a get_all on a getter whose store is damaged ends without a storage
\* error, and, having got no entry from the cache, it ran a live probe.
C23_CorruptionRecovered ==
    last.op = "get_all" =>
        /\ disk.error = "none"
        /\ last.read = {} => last.probes = 1

\* ---------------------------------------------------------------------
\* C24: a get_all without override runs clear_expired once, on a cache
\* hit, on a miss and under skip_cache alike, so that no entry past its
\* expiry is left in the table; a get_all with an override runs it not at
\* all and removes nothing.
C24_PurgeOncePerCall ==
    last.op = "get_all" =>
        IF last.headers = <<>>
        THEN /\ last.purges = 1
             /\ \A r \in cache : r.expires >= now
        ELSE /\ last.purges = 0
             /\ last.removed = {}

\* A get_all served from the cache, without probe, that ran the purge
C24_Witness ==
    /\ last.op = "get_all"
    /\ last.headers = <<>>
    /\ last.reads = 1
    /\ last.probes = 0
    /\ last.purges = 1
    /\ now > 0

\* ---------------------------------------------------------------------
\* C25: a get_all served from the cache, without probe, writes nothing:
\* it makes no call of _save_cache, and every entry it read is still in the
\* table with the value and the expiry it had.
C25_CacheServedCallWritesNothing ==
    (last.op = "get_all" /\ last.headers = <<>> /\ last.probes = 0) =>
        /\ last.writes = 0
        /\ last.put = <<>>
        /\ \A r \in last.read : r.expires >= now => r \in cache

\* ---------------------------------------------------------------------
\* C26: once a connection waits at the listener of a call of
\* _get_uncached, the call comes to an end (it returns or raises); while the
\* call waits in handle_request and nothing has connected, it stays there
\* (no step of it times out), and neither the cache nor the record of the last
\* finished call changes.
Terminated == probe.pc \in {"done", "raised"}

C26_TerminatesOnceRequestArrives ==
    /\ (probe.listener # 0 /\ probe.backlog # <<>>) ~> Terminated
    /\ (probe.pc = "bind" /\ BindErrno(host, probe.server_address) = 0)
           ~> (probe.listener # 0 \/ Terminated)
    /\ [][(probe.pc = "serve" /\ probe.backlog = <<>>) =>
              /\ probe'.pc = "serve"
              /\ probe'.error = "none"
              /\ cache' = cache
              /\ last' = last]_vars

\* The call waits in handle_request after a collision and a second draw,
\* and the browser's request has just arrived.
C26_Witness ==
    /\ probe.pc = "serve"
    /\ probe.draws >= 2
    /\ Len(probe.backlog) = 1
    /\ probe.backlog[1].from = "browser"
    /\ ~probe.saved

\* ---------------------------------------------------------------------
\* C28: when _get_uncached has raised, its listener is closed and no
\* socket of it is left open.
C28_ListenerReleasedOnError ==
    probe.pc = "raised" =>
        /\ probe.listener = 0
        /\ probe.sockets = {}

\* ---------------------------------------------------------------------
\* C27: the value a committed put stored for a key is replaced only by the
\* put of a live probe: the commit of a process whose get_all served itself
\* from the cache leaves every stored key with the value it had.
C27_NoLostUpdate ==
    [][\A p \in Procs :
          (/\ procs[p].pc = "save_commit"
           /\ procs'[p].pc = "idle"
           /\ ~procs[p].probed) =>
              \A r \in cache :
                  \E r2 \in cache' :
                      /\ r2.py_version = r.py_version
                      /\ SameNoCase(r2.key, r.key)
                      /\ r2.value = r.value]_vars

\* ---------------------------------------------------------------------
\* C29: a get_all or get_safe without override stores the header set it
\* obtained as it obtained it, unsafe headers and the case of the names
\* included: every pair of it is a row of the table afterwards; and the
\* mapping the call returns, served from such a table or not, has no key
\* that matches a name of unsafe_headers.
C29_StoredUnfilteredServedFiltered ==
    (last.op \in {"get_all", "get_safe"} /\ last.headers = <<>>) =>
        /\ last.put = last.source
        /\ \A i \in DOMAIN last.source :
               Row(py_version, last.source[i][1], last.source[i][2],
                   now + cache_timeout) \in cache
        /\ last.probes = 0 => Items(last.source) = PairsOf(last.read)
        /\ \A k \in Keys(last.result) : lower(k) \notin UnsafeLower

\* A probe's Cookie header is a row of the table, a later call was served
\* that row from the cache without probe, wrote it back, and returned a
\* mapping without it.
C29_Witness ==
    /\ last.op \in {"get_all", "get_safe"}
    /\ last.probes = 0
    /\ \E r \in last.read : r.key = Str("Cookie") /\ r.value = "sid"
    /\ \E r \in cache : r.key = Str("Cookie") /\ r.value = "sid"
    /\ \A k \in Keys(last.result) : lower(k) # Str("cookie")
    /\ last.result # <<>>

====
